---------------------------- MODULE Spec2Model ----------------------------
(***************************************************************************)
(* A model of the AMT-8000 integration: the ISEC2 client                   *)
(* (isec2/client.py), the polling coordinator (coordinator.py), the        *)
(* alarm-panel entity and its commands (alarm_control_panel.py) and the    *)
(* refresh_zones service and the unloading of the entry (__init__.py).     *)
(*                                                                         *)
(* Conventions.  A Python bytes/bytearray value is a sequence of numbers   *)
(* 0..255; Python index i is position i+1 of the sequence.  A Python dict  *)
(* is a function whose DOMAIN is the set of its keys.  None is the empty   *)
(* tuple <<>> and a value x that may be None is carried as <<x>>.  Time is *)
(* measured in seconds from the present moment: now is 0 and next_update   *)
(* holds the seconds left until the deadline (0 once it has passed), which *)
(* is all the code ever reads of the two timestamps.                       *)
(***************************************************************************)
EXTENDS Integers, Sequences, FiniteSets, TLC

VARIABLES
    client,           \* Client.client of the coordinator's client: None or a socket
    leaked,           \* sockets dropped by a client without socket.close() (saturating)
    lastOp,           \* the Client method called last
    lastResult,       \* that call and what it returned or raised
    wire,             \* the frame that call put on the socket (<<>>: nothing sent)
    pc,               \* position of the running poll cycle (_async_update_data)
    paired_zones,     \* AmtCoordinator.paired_zones
    next_update,      \* AmtCoordinator.next_update, in seconds from now
    stored_status,    \* AmtCoordinator.stored_status
    attempt,          \* AmtCoordinator.attempt
    password,         \* AmtCoordinator.password
    returned,         \* outcome of the last poll tick: data returned or UpdateFailed
    cycle,            \* how the last poll tick ended
    decoded,          \* the status dict build_status gave the last successful cycle
    lastGood,         \* the snapshot built by the last successful cycle
    delay,            \* backoff_seconds set by the last failed cycle (0: none)
    prevDelay,        \* backoff_seconds of the failed cycle before it, if consecutive
    attr_state,       \* AmtAlarmPanel._attr_state
    last_known_state, \* AmtAlarmPanel._last_known_state
    loop,             \* the coroutine the event loop is executing ("free": none)
    rz,               \* position of the running async_refresh_zones
    unloaded,         \* async_unload_entry has torn the coordinator down
    cmd_pc,           \* position of the running _execute_command
    cmd_client,       \* Client.client of the client _execute_command created
    cmd_exit,         \* how the last _execute_command ended
    cmd_result,       \* what command_func returned to the last _execute_command
    codec_fn,         \* the function of the codec applied last
    codec_arg,        \* the argument it was applied to
    codec_out         \* what it returned

clientVars == <<client, leaked, lastOp, lastResult, wire>>
coordVars == <<pc, paired_zones, next_update, stored_status, attempt, password,
               returned, cycle, decoded, lastGood, delay, prevDelay>>
entityVars == <<attr_state, last_known_state>>
schedVars == <<loop, rz, unloaded>>
cmdVars == <<cmd_pc, cmd_client, cmd_exit, cmd_result>>
codecVars == <<codec_fn, codec_arg, codec_out>>
vars == <<clientVars, coordVars, entityVars, schedVars, cmdVars, codecVars>>

---------------------------------------------------------------------------
(* Bounds of the model *)

\* leaked counts up to this many unclosed sockets and then stays there
MaxLeaked == 2

---------------------------------------------------------------------------
(* Python values *)

None == <<>>
Some(x) == <<x>>
EmptyDict == [k \in {} |-> TRUE]

\* dict.get(key, default)
Get(d, key, default) == IF key \in DOMAIN d THEN d[key] ELSE default

\* data[i] of a bytes value
At(data, i) == data[i + 1]

\* data[a:b] of a bytes value (a <= b), clamped to what is present
Slice(data, a, b) ==
    LET hi == IF b < Len(data) THEN b ELSE Len(data)
    IN  IF a >= hi THEN <<>> ELSE [i \in 1..(hi - a) |-> data[a + i]]

\* (value >> k) & 1
Bit(value, k) == (value \div (2 ^ k)) % 2

RECURSIVE XorBits(_, _, _)
XorBits(a, b, n) ==
    IF n = 0 THEN 0
    ELSE (((a % 2) + (b % 2)) % 2) + (2 * XorBits(a \div 2, b \div 2, n - 1))

\* a ^ b on bytes (each operand is evaluated once, whatever expression it
\* is given as)
Xor(a, b) == CHOOSE r \in {XorBits(x, y, 8) : x \in {a}, y \in {b}} : TRUE

Min(a, b) == IF a < b THEN a ELSE b
Max(a, b) == IF a > b THEN a ELSE b

\* str(zone_number)
ZoneKey(n) == ToString(n)

---------------------------------------------------------------------------
(* isec2/client.py: constants and the frame codec *)

dst_id == <<0, 0>>
our_id == <<143, 255>>
cmd_auth == <<240, 240>>
cmd_status == <<11, 74>>
cmd_arm_disarm == <<64, 30>>
cmd_panic == <<64, 26>>
cmd_paired_sensors == <<11, 1>>
ZONE_PAYLOAD_OFFSET == 64
MAX_ZONES == 64
device_type == 1
software_version == 16

\* split_into_octets(n); <<>> stands for the ValueError
\* split_into_octets returning the low byte first
split_into_octets_LowFirst(n) ==
    IF 0 <= n /\ n <= 65535
    THEN <<n % 256, (n \div 256) % 256>>
    ELSE <<>>

split_into_octets(n) ==
    IF 0 <= n /\ n <= 65535
    THEN <<(n \div 256) % 256, n % 256>>
    ELSE <<>>

RECURSIVE XorAll(_, _)
XorAll(buffer, acc) ==
    IF buffer = <<>> THEN acc
    ELSE XorAll(Tail(buffer), Xor(acc, Head(buffer)))

\* calculate_checksum without the final XOR with 0xFF
calculate_checksum_NoInvert(buffer) == XorAll(buffer, 0) % 256

calculate_checksum(buffer) == Xor(XorAll(buffer, 0), 255) % 256

merge_octets(buf) == buf[1] * 256 + buf[2]

\* battery_status_for without its length test: the read of resp[134] fails
battery_status_for_Unchecked(resp) ==
    IF Len(resp) <= 134 THEN "IndexError"
    ELSE CASE At(resp, 134) = 1 -> "dead"
           [] At(resp, 134) = 2 -> "low"
           [] At(resp, 134) = 3 -> "middle"
           [] At(resp, 134) = 4 -> "full"
           [] OTHER -> "unknown"

battery_status_for(resp) ==
    IF Len(resp) <= 134 THEN "unknown"
    ELSE LET batt == At(resp, 134)
         IN  CASE batt = 1 -> "dead"
               [] batt = 2 -> "low"
               [] batt = 3 -> "middle"
               [] batt = 4 -> "full"
               [] OTHER -> "unknown"

\* get_status reading the two bits one place higher
get_status_Shift6(payload) ==
    IF Len(payload) <= 20 THEN "unknown"
    ELSE LET st == (At(payload, 20) \div 64) % 4
         IN  CASE st = 0 -> "disarmed"
               [] st = 1 -> "partial_armed"
               [] st = 3 -> "armed_away"
               [] OTHER -> "unknown"

\* get_status taking every non-zero code other than 1 for armed_away
get_status_NoUnknown(payload) ==
    IF Len(payload) <= 20 THEN "unknown"
    ELSE LET st == (At(payload, 20) \div 32) % 4
         IN  CASE st = 0 -> "disarmed"
               [] st = 1 -> "partial_armed"
               [] OTHER -> "armed_away"

get_status(payload) ==
    IF Len(payload) <= 20 THEN "unknown"
    ELSE LET st == (At(payload, 20) \div 32) % 4
         IN  CASE st = 0 -> "disarmed"
               [] st = 1 -> "partial_armed"
               [] st = 3 -> "armed_away"
               [] OTHER -> "unknown"

\* the zone loop of build_status: byte_index 0..7, stopping at the first
\* byte that is not in the payload
ZoneBytesPresent(payload) ==
    {bi \in 0..7 : \A bj \in 0..bi : ZONE_PAYLOAD_OFFSET + bj < Len(payload)}

ZonesOf(payload) ==
    LET present == ZoneBytesPresent(payload)
        nums == {n \in 1..MAX_ZONES : ((n - 1) \div 8) \in present}
        numOf(k) == CHOOSE n \in nums : ZoneKey(n) = k
    IN  [k \in {ZoneKey(n) : n \in nums} |->
            LET n == numOf(k)
                byte_value == At(payload, ZONE_PAYLOAD_OFFSET + ((n - 1) \div 8))
            IN  IF Bit(byte_value, (n - 1) % 8) = 0 THEN "open" ELSE "closed"]

StatusDefaults ==
    [model |-> "Unknown", version |-> "Unknown", status |-> "unknown",
     zonesFiring |-> FALSE, zonesClosed |-> FALSE, siren |-> FALSE,
     batteryStatus |-> "unknown", tamper |-> FALSE, zones |-> EmptyDict]

build_status(data) ==
    IF Len(data) < 8 THEN StatusDefaults
    ELSE
    LET expected_payload_length == merge_octets(Slice(data, 4, 6))
        payload == IF Len(data) < 8 + expected_payload_length
                   THEN Slice(data, 8, Len(data))
                   ELSE Slice(data, 8, 8 + expected_payload_length)
        has20 == Len(payload) > 20
    IN  [model |-> IF Len(payload) > 0 /\ At(payload, 0) = 1
                   THEN "AMT-8000" ELSE "Unknown",
         version |-> IF Len(payload) > 3
                     THEN ToString(At(payload, 1)) \o "." \o ToString(At(payload, 2))
                          \o "." \o ToString(At(payload, 3))
                     ELSE "Unknown",
         status |-> IF has20 THEN get_status(payload) ELSE "unknown",
         zonesFiring |-> has20 /\ Bit(At(payload, 20), 3) = 1,
         zonesClosed |-> has20 /\ Bit(At(payload, 20), 2) = 1,
         siren |-> has20 /\ Bit(At(payload, 20), 1) = 1,
         batteryStatus |-> battery_status_for(payload),
         tamper |-> Len(payload) > 71 /\ Bit(At(payload, 71), 1) = 1,
         zones |-> ZonesOf(payload)]

---------------------------------------------------------------------------
(* isec2/client.py: class Client.  Each method is an operator from the     *)
(* value of self.client and what the network does to the record            *)
(*   client : self.client when the method returns or raises                *)
(*   leak   : 1 when a socket was dropped without socket.close()           *)
(*   raised : the exception raised ("" when the method returns)            *)
(*   cause  : which raise statement, or which early return, it was         *)
(*   value  : the value returned                                           *)
(*   wire   : the frame handed to socket.send (<<>> when none)             *)

\* a socket object, by the state of its connection
Socket(s) == <<s>>

\* socket.shutdown(SHUT_RDWR): fails with OSError (ENOTCONN) on a socket
\* that never connected, succeeds on a connected one, and does either on
\* one whose connection has failed
ShutdownOutcomes(c) ==
    CASE c = Socket("connected") -> {"ok"}
      [] c = Socket("unconnected") -> {"OSError"}
      [] c = Socket("broken") -> {"ok", "OSError"}
      [] OTHER -> {"ok"}

\* socket.connect((host, port)): the except clauses of Client.connect
ConnectOutcomes == {"ok", "timeout", "refused", "oserror"}

\* socket.send followed by socket.recv(1024): an unconnected socket fails
\* with OSError, a connected one answers, times out or fails
IoOutcomes(c) ==
    CASE c = Socket("connected") -> {"ok", "timeout", "oserror"}
      [] c = Socket("broken") -> {"timeout", "oserror"}
      [] OTHER -> {"oserror"}

\* the socket after send/recv ended with io
AfterIo(c, io) == IF io = "oserror" /\ c = Socket("connected") THEN Socket("broken") ELSE c

Outcome(c, lk, ex, why, val, frame) ==
    [client |-> c, leak |-> lk, raised |-> ex, cause |-> why,
     value |-> val, wire |-> frame]

\* the check at the head of a method left out: the method returns quietly
NotConnected_Silent(c) ==
    Outcome(c, 0, "", "", None, <<>>)

\* the check at the head of every method that needs a connection
NotConnected(c) ==
    Outcome(c, 0, "CommunicationError", "not_connected", None, <<>>)

\* the except clauses around send/recv: the socket stays in self.client
IoFailure(c, io, frame) ==
    Outcome(AfterIo(c, io), 0, "CommunicationError", io, None, frame)

\* close() without its finally clause: a failed shutdown leaves the socket
\* in self.client
close_NoFinally(c, shut) ==
    IF c = None \/ shut = "ok"
    THEN Outcome(None, 0, "", "", None, <<>>)
    ELSE Outcome(c, 0, "", "", None, <<>>)

\* close() without its early return: shutdown is called on None
close_Unguarded(c, shut) ==
    IF c = None
    THEN Outcome(None, 0, "AttributeError", "shutdown", None, <<>>)
    ELSE IF shut = "ok"
         THEN Outcome(None, 0, "", "", None, <<>>)
         ELSE Outcome(None, 1, "", "", None, <<>>)

close(c, shut) ==
    IF c = None
    THEN \* nothing to close: a warning is logged and close() returns
         Outcome(None, 0, "", "non_existent", None, <<>>)
    ELSE IF shut = "ok"
         THEN Outcome(None, 0, "", "", None, <<>>)
         ELSE \* shutdown raised OSError: socket.close() is skipped
              Outcome(None, 1, "", "", None, <<>>)

connect(c, shut, conn) ==
    LET closed == IF c # None THEN close(c, shut) ELSE Outcome(c, 0, "", "", None, <<>>)
    IN  IF conn = "ok"
        THEN Outcome(Socket("connected"), closed.leak, "", "", None, <<>>)
        ELSE Outcome(Socket("unconnected"), closed.leak,
                     "CommunicationError", conn, None, <<>>)

Frame(length, command, payload) ==
    LET data == dst_id \o our_id \o length \o command \o payload
    IN  data \o <<calculate_checksum(data)>>

Digits == {"0", "1", "2", "3", "4", "5", "6", "7", "8", "9"}

\* int(char)
DigitValue(char) == CHOOSE n \in 0..9 : ToString(n) = char

\* the loop over the password raises at the first character it visits that
\* is not a digit, or at once when the length is not 6; a password with no
\* characters is never visited
PasswordRejected(pw) ==
    \E i \in 1..Len(pw) : Len(pw) # 6 \/ pw[i] \notin Digits

AuthFrame(pw) ==
    LET pass_array == [i \in 1..Len(pw) |-> DigitValue(pw[i])]
    IN  Frame(<<0, 10>>, cmd_auth, <<device_type>> \o pass_array \o <<software_version>>)

\* auth that takes every result byte it does not know for success
auth_Lenient(c, pw, io, resp) ==
    IF c = None THEN NotConnected(c)
    ELSE IF PasswordRejected(pw)
    THEN Outcome(c, 0, "CommunicationError", "password", None, <<>>)
    ELSE IF io # "ok" THEN IoFailure(c, io, AuthFrame(pw))
    ELSE IF Len(resp) < 9
    THEN Outcome(c, 0, "CommunicationError", "short", None, AuthFrame(pw))
    ELSE IF At(resp, 8) \in 1..4
    THEN Outcome(c, 0, "AuthError", "rejected", None, AuthFrame(pw))
    ELSE Outcome(c, 0, "", "", Some(TRUE), AuthFrame(pw))

auth(c, pw, io, resp) ==
    IF c = None THEN NotConnected(c)
    ELSE IF PasswordRejected(pw)
    THEN Outcome(c, 0, "CommunicationError", "password", None, <<>>)
    ELSE IF io # "ok" THEN IoFailure(c, io, AuthFrame(pw))
    ELSE IF Len(resp) < 9
    THEN Outcome(c, 0, "CommunicationError", "short", None, AuthFrame(pw))
    ELSE LET result == At(resp, 8)
         IN  CASE result = 0 -> Outcome(c, 0, "", "", Some(TRUE), AuthFrame(pw))
               [] result = 1 -> Outcome(c, 0, "AuthError", "Invalid password", None, AuthFrame(pw))
               [] result = 2 -> Outcome(c, 0, "AuthError", "Incorrect software version", None, AuthFrame(pw))
               [] result = 3 -> Outcome(c, 0, "AuthError", "Alarm panel will call back", None, AuthFrame(pw))
               [] result = 4 -> Outcome(c, 0, "AuthError", "Waiting for user permission", None, AuthFrame(pw))
               [] OTHER -> Outcome(c, 0, "CommunicationError", "unknown", None, AuthFrame(pw))

status(c, io, resp) ==
    LET frame == Frame(<<0, 2>>, cmd_status, <<>>)
    IN  IF c = None THEN NotConnected(c)
        ELSE IF io # "ok" THEN IoFailure(c, io, frame)
        ELSE Outcome(c, 0, "", "", Some(build_status(resp)), frame)

\* arm_system without the replacement of partition 0 by 0xFF
arm_system_NoSentinel(c, partition, io, resp) ==
    LET frame == Frame(<<0, 4>>, cmd_arm_disarm, <<partition, 1>>)
    IN  IF c = None THEN NotConnected(c)
        ELSE IF io # "ok" THEN IoFailure(c, io, frame)
        ELSE IF Len(resp) > 8 /\ At(resp, 8) = 145
        THEN Outcome(c, 0, "", "", Some("armed"), frame)
        ELSE Outcome(c, 0, "", "", Some("not_armed"), frame)

arm_system(c, partition, io, resp) ==
    LET part == IF partition = 0 THEN 255 ELSE partition
        frame == Frame(<<0, 4>>, cmd_arm_disarm, <<part, 1>>)
    IN  IF c = None THEN NotConnected(c)
        ELSE IF io # "ok" THEN IoFailure(c, io, frame)
        ELSE IF Len(resp) > 8 /\ At(resp, 8) = 145
        THEN Outcome(c, 0, "", "", Some("armed"), frame)
        ELSE Outcome(c, 0, "", "", Some("not_armed"), frame)

disarm_system(c, partition, io, resp) ==
    LET part == IF partition = 0 THEN 255 ELSE partition
        frame == Frame(<<0, 4>>, cmd_arm_disarm, <<part, 0>>)
    IN  IF c = None THEN NotConnected(c)
        ELSE IF io # "ok" THEN IoFailure(c, io, frame)
        ELSE IF Len(resp) > 8 /\ At(resp, 8) = 145
        THEN Outcome(c, 0, "", "", Some("disarmed"), frame)
        ELSE Outcome(c, 0, "", "", Some("not_disarmed"), frame)

\* panic looking for its marker at byte 8, where arm and disarm look
panic_Byte8(c, panic_type, io, resp) ==
    LET frame == Frame(<<0, 3>>, cmd_panic, <<panic_type>>)
    IN  IF c = None THEN NotConnected(c)
        ELSE IF io # "ok" THEN IoFailure(c, io, frame)
        ELSE IF Len(resp) > 8 /\ At(resp, 8) = 254
        THEN Outcome(c, 0, "", "", Some("triggered"), frame)
        ELSE Outcome(c, 0, "", "", Some("not_triggered"), frame)

panic(c, panic_type, io, resp) ==
    LET frame == Frame(<<0, 3>>, cmd_panic, <<panic_type>>)
    IN  IF c = None THEN NotConnected(c)
        ELSE IF io # "ok" THEN IoFailure(c, io, frame)
        ELSE IF Len(resp) > 7 /\ At(resp, 7) = 254
        THEN Outcome(c, 0, "", "", Some("triggered"), frame)
        ELSE Outcome(c, 0, "", "", Some("not_triggered"), frame)

\* the loop of get_paired_sensors: byte_index 0..7, stopping at the first
\* byte that was not received
PairedBytesPresent(return_data) ==
    {bi \in 0..7 : \A bj \in 0..bi : Len(return_data) > 8 + bj}

PairedOf(return_data) ==
    LET present == PairedBytesPresent(return_data)
        nums == {n \in 1..MAX_ZONES :
                    /\ ((n - 1) \div 8) \in present
                    /\ Bit(At(return_data, 8 + ((n - 1) \div 8)), (n - 1) % 8) = 1}
    IN  [k \in {ZoneKey(n) : n \in nums} |-> TRUE]

\* get_paired_sensors without the test for the error marker
get_paired_sensors_NoMarker(c, io, resp) ==
    LET frame == Frame(<<0, 2>>, cmd_paired_sensors, <<>>)
    IN  IF c = None THEN NotConnected(c)
        ELSE IF io # "ok" THEN IoFailure(c, io, frame)
        ELSE Outcome(c, 0, "", "", Some(PairedOf(resp)), frame)

get_paired_sensors(c, io, resp) ==
    LET frame == Frame(<<0, 2>>, cmd_paired_sensors, <<>>)
    IN  IF c = None THEN NotConnected(c)
        ELSE IF io # "ok" THEN IoFailure(c, io, frame)
        ELSE IF Len(resp) > 8 /\ At(resp, 8) = 253
        THEN Outcome(c, 0, "", "", Some(EmptyDict), frame)
        ELSE Outcome(c, 0, "", "", Some(PairedOf(resp)), frame)

---------------------------------------------------------------------------
(* What the panel may answer *)

\* a response of the panel: header, declared length, command, payload
Response(declared, command, payload) ==
    our_id \o dst_id \o split_into_octets(declared) \o command \o payload

\* a status payload of n bytes: model 1, version 2.1.0, the status bits at
\* 20, the zone table at 64..71 (71 is also the tamper byte), battery at 134
StatusPayload(n, b20, z0, b71, b134) ==
    [i \in 1..n |->
        CASE i - 1 = 0 -> 1
          [] i - 1 = 1 -> 2
          [] i - 1 = 2 -> 1
          [] i - 1 = 20 -> b20
          [] i - 1 = ZONE_PAYLOAD_OFFSET -> z0
          [] i - 1 = 71 -> b71
          [] i - 1 = 134 -> b134
          [] OTHER -> 0]

FullLen == 143

AuthResponses ==
    {Response(3, cmd_auth, <<>>)}
    \cup {Response(3, cmd_auth, <<b>>) : b \in 0..5}

StatusResponses ==
    { <<>>,
      Response(FullLen, cmd_status, StatusPayload(FullLen, 96, 254, 2, 4)),
      Response(FullLen, cmd_status, StatusPayload(30, 44, 0, 0, 0)),
      Response(FullLen, cmd_status, StatusPayload(FullLen, 0, 255, 0, 1)) }

PairedResponses ==
    { Response(2, cmd_paired_sensors, <<253>>),
      Response(2, cmd_paired_sensors, <<>>),
      Response(10, cmd_paired_sensors, <<3, 0, 0, 0, 0, 0, 0, 128>>),
      Response(10, cmd_paired_sensors, <<1, 1>>) }

CommandResponses ==
    { <<>>,
      Response(3, cmd_arm_disarm, <<145>>),
      Response(3, cmd_arm_disarm, <<0>>),
      <<143, 255, 0, 0, 0, 1, 64, 254>> }

Passwords ==
    { <<"1", "2", "3", "4", "5", "6">>,
      <<"1", "2", "a", "4", "5", "6">>,
      <<"1", "2", "3", "4", "5", "6", "7">>,
      <<>> }

Partitions == {0, 1, 3}

---------------------------------------------------------------------------
(* coordinator.py: class AmtCoordinator *)

max_retries == 5
update_interval == 30

\* datetime.now(), in seconds from the present moment
now == 0

\* how much time may pass between two steps: one scheduler interval (a
\* tick may also come with no time passed at all, as a requested refresh
\* does)
Elapse == {update_interval}

\* _process_status_data without the filter on the paired zones: every zone
\* the status response covers is copied
_process_status_data_AllZones(status_dict, paired) ==
    LET zones_data == Get(status_dict, "zones", EmptyDict)
    IN  [panel |->
            [armed |-> Get(status_dict, "armed", FALSE),
             partiallyArmed |-> Get(status_dict, "partiallyArmed", FALSE),
             disarmed |-> Get(status_dict, "disarmed", FALSE),
             inAlarm |-> Get(status_dict, "inAlarm", FALSE),
             armedStay |-> Get(status_dict, "armedStay", FALSE),
             zonesFiring |-> Get(status_dict, "zonesFiring", FALSE),
             zonesClosed |-> Get(status_dict, "zonesClosed", FALSE),
             batteryStatus |-> Get(status_dict, "batteryStatus", "unknown"),
             tamper |-> Get(status_dict, "tamper", FALSE),
             model |-> Get(status_dict, "model", "AMT-8000"),
             version |-> Get(status_dict, "version", "Unknown")],
         zones |-> zones_data]

_process_status_data(status_dict, paired) ==
    LET zones_data == Get(status_dict, "zones", EmptyDict)
    IN  [panel |->
            [armed |-> Get(status_dict, "armed", FALSE),
             partiallyArmed |-> Get(status_dict, "partiallyArmed", FALSE),
             disarmed |-> Get(status_dict, "disarmed", FALSE),
             inAlarm |-> Get(status_dict, "inAlarm", FALSE),
             armedStay |-> Get(status_dict, "armedStay", FALSE),
             zonesFiring |-> Get(status_dict, "zonesFiring", FALSE),
             zonesClosed |-> Get(status_dict, "zonesClosed", FALSE),
             batteryStatus |-> Get(status_dict, "batteryStatus", "unknown"),
             tamper |-> Get(status_dict, "tamper", FALSE),
             model |-> Get(status_dict, "model", "AMT-8000"),
             version |-> Get(status_dict, "version", "Unknown")],
         zones |->
            [zone_id \in {z \in DOMAIN paired : paired[z]} |->
                IF zone_id \in DOMAIN zones_data
                THEN zones_data[zone_id]
                ELSE "normal"]]

\* the cooldown without the reset of the counter
_handle_communication_error_NoReset(att) ==
    LET a1 == Min(att + 1, max_retries)
    IN  IF a1 >= max_retries
        THEN [attempt |-> a1, backoff_seconds |-> 300]
        ELSE [attempt |-> a1, backoff_seconds |-> Min(2 ^ a1, 60)]

\* a backoff that grows by 2 seconds a failure instead of doubling
_handle_communication_error_Linear(att) ==
    LET a1 == Min(att + 1, max_retries)
    IN  IF a1 >= max_retries
        THEN [attempt |-> 0, backoff_seconds |-> 300]
        ELSE [attempt |-> a1, backoff_seconds |-> Min(2 * a1, 60)]

\* the counter and the delay _handle_communication_error sets
_handle_communication_error(att) ==
    LET a1 == Min(att + 1, max_retries)
    IN  IF a1 >= max_retries
        THEN [attempt |-> 0, backoff_seconds |-> 300]
        ELSE [attempt |-> a1, backoff_seconds |-> Min(2 ^ a1, 60)]

\* the counter incremented without its cap
_handle_unexpected_error_NoCap(att) ==
    LET a1 == att + 1
    IN  [attempt |-> a1, backoff_seconds |-> Min(2 ^ a1, 120)]

\* the counter and the delay _handle_unexpected_error sets
_handle_unexpected_error(att) ==
    LET a1 == Min(att + 1, max_retries)
    IN  [attempt |-> a1, backoff_seconds |-> Min(2 ^ a1, 120)]

\* the rate limit with its comparison turned around
Throttled_Inverted(t, deadline, stored) == t > deadline /\ stored # None

\* a rate limit that never looks at the deadline
Throttled_Forever(t, deadline, stored) == stored # None

\* the rate limit at the head of _async_update_data: return the stored
\* snapshot without any I/O
Throttled(t, deadline, stored) == t < deadline /\ stored # None

\* a handler that returns empty data instead of the stored snapshot
ReturnStored_Empty(stored) == [kind |-> "data", data |-> Some(EmptyDict)]

\* a handler that raises whether or not a snapshot is stored
ReturnStored_Raise(stored) == [kind |-> "UpdateFailed", data |-> None]

\* what both handlers do with the stored snapshot: return it, or raise
ReturnStored(stored) ==
    IF stored # None
    THEN [kind |-> "data", data |-> stored]
    ELSE [kind |-> "UpdateFailed", data |-> None]

\* a successful cycle that leaves the counter and the deadline as they were
ResetCounters_Keep(att, deadline) == [attempt |-> att, next_update |-> deadline]

\* the bookkeeping of a successful cycle: self.attempt = 0 and
\* self.next_update = datetime.now()
ResetCounters(att, deadline) == [attempt |-> 0, next_update |-> now]

\* _async_cleanup_connection: close the client when it holds a socket
_async_cleanup_connection(c, shut) ==
    IF c # None THEN close(c, shut) ELSE Outcome(c, 0, "", "", None, <<>>)

\* the panel_data property
panel_data(stored) ==
    IF stored = None THEN EmptyDict ELSE Get(stored[1], "panel", EmptyDict)

---------------------------------------------------------------------------
(* alarm_control_panel.py: AmtAlarmPanel._update_state *)

_update_state(pd, attr, last) ==
    IF DOMAIN pd = {}
    THEN [attr_state |-> None, last_known_state |-> last]
    ELSE LET st ==
                 IF Get(pd, "inAlarm", FALSE) THEN Some("triggered")
                 ELSE IF Get(pd, "armed", FALSE) THEN Some("armed_away")
                 ELSE IF Get(pd, "partiallyArmed", FALSE) \/ Get(pd, "armedStay", FALSE)
                      THEN Some("armed_home")
                 ELSE IF Get(pd, "disarmed", FALSE) THEN Some("disarmed")
                 ELSE IF last # None THEN last
                 ELSE Some("disarmed")
         IN  [attr_state |-> st, last_known_state |-> IF st # None THEN st ELSE last]

---------------------------------------------------------------------------
(* The event loop.  Every coroutine of the integration runs on the one     *)
(* event loop of Home Assistant.  A coroutine keeps the loop until it      *)
(* awaits something that suspends it; awaiting another coroutine of the    *)
(* integration does not suspend, and a call of a Client method made        *)
(* directly from a coroutine blocks the loop until the call returns.       *)

\* the call made at this step is handed to an executor: no call site of a
\* Client method in coordinator.py, alarm_control_panel.py or __init__.py
\* uses async_add_executor_job, run_in_executor or to_thread
Offloaded_Executor(step) == step \in {"connect", "auth", "paired", "status", "command"}

Offloaded(step) == FALSE

\* who has the event loop while coroutine who stands at step: nobody once
\* it has finished or while it awaits an executor job or another task
Hold(who, step) ==
    IF step \in {"idle", "refresh"} \/ Offloaded(step) THEN "free" ELSE who

---------------------------------------------------------------------------
(* The state machine *)

NoResult == [lastOp |-> "init", raised |-> "", cause |-> "", value |-> None]
NoCycle == [end |-> "none", step |-> ""]

Init ==
    /\ client = None
    /\ leaked = 0
    /\ lastOp = "init"
    /\ lastResult = NoResult
    /\ wire = <<>>
    /\ pc = "idle"
    /\ paired_zones = EmptyDict
    /\ next_update = now
    /\ stored_status = None
    /\ attempt = 0
    /\ password \in {pw \in Passwords : Len(pw) = 6}
    /\ returned = [kind |-> "none", data |-> None]
    /\ cycle = NoCycle
    /\ decoded = None
    /\ lastGood = None
    /\ delay = 0
    /\ prevDelay = 0
    /\ attr_state = None
    /\ last_known_state = None
    /\ loop = "free"
    /\ rz = "idle"
    /\ unloaded = FALSE
    /\ cmd_pc = "idle"
    /\ cmd_client = None
    /\ cmd_exit = "none"
    /\ cmd_result = None
    /\ codec_fn = "none"
    /\ codec_arg = <<>>
    /\ codec_out = <<>>

\* the effect of a Client method on the client it was called on
Called(op, r) ==
    /\ client' = r.client
    /\ leaked' = Min(leaked + r.leak, MaxLeaked)
    /\ lastOp' = op
    /\ lastResult' = [lastOp |-> op, raised |-> r.raised, cause |-> r.cause,
                      value |-> r.value]
    /\ wire' = r.wire

\* _handle_coordinator_update of the alarm-panel entity
Notify(stored) ==
    LET u == _update_state(panel_data(stored), attr_state, last_known_state)
    IN  /\ attr_state' = u.attr_state
        /\ last_known_state' = u.last_known_state

\* a failure after which the cycle goes on to the status request
Failed_Continue(step, h) ==
    /\ attempt' = h.attempt
    /\ next_update' = now + h.backoff_seconds
    /\ returned' = ReturnStored(stored_status)
    /\ cycle' = [end |-> "failed", step |-> step]
    /\ prevDelay' = delay
    /\ delay' = h.backoff_seconds
    /\ pc' = IF step \in {"connect", "auth"} THEN "status" ELSE "cleanup"
    /\ UNCHANGED <<stored_status, decoded, lastGood>>

\* the except branches of _async_update_data: h is what the handler computed
Failed(step, h) ==
    /\ attempt' = h.attempt
    /\ next_update' = now + h.backoff_seconds
    /\ returned' = ReturnStored(stored_status)
    /\ cycle' = [end |-> "failed", step |-> step]
    /\ prevDelay' = delay
    /\ delay' = h.backoff_seconds
    /\ pc' = "cleanup"
    /\ UNCHANGED <<stored_status, decoded, lastGood>>

\* time passes
Advance ==
    /\ next_update > 0
    /\ \E d \in Elapse : next_update' = Max(next_update - d, 0)
    /\ UNCHANGED <<clientVars, entityVars, pc, paired_zones, stored_status, attempt,
                   password, returned, cycle, decoded, lastGood, delay, prevDelay,
                   schedVars, cmdVars, codecVars>>

\* a poll tick: _async_update_data up to the throttle.  The model holds one
\* poll cycle, so a tick starts one only when none is running
Tick ==
    /\ pc = "idle"
    /\ loop = "free"
    /\ ~unloaded
    /\ IF Throttled(now, next_update, stored_status)
       THEN /\ returned' = [kind |-> "data", data |-> stored_status]
            /\ cycle' = [end |-> "throttled", step |-> ""]
            /\ Notify(stored_status)
            /\ UNCHANGED <<pc, loop>>
       ELSE /\ pc' = "connect"
            /\ loop' = Hold("poll", "connect")
            /\ cycle' = [end |-> "running", step |-> ""]
            /\ returned' = [kind |-> "none", data |-> None]
            /\ UNCHANGED entityVars
    /\ UNCHANGED <<clientVars, paired_zones, next_update, stored_status, attempt,
                   password, decoded, lastGood, delay, prevDelay, rz, unloaded,
                   cmdVars, codecVars>>

\* _async_connect_and_auth: client.connect()
PollConnect ==
    /\ pc = "connect"
    /\ loop = Hold("poll", pc)
    /\ \E shut \in ShutdownOutcomes(client), conn \in ConnectOutcomes :
         \E r \in {connect(client, shut, conn)} :
             /\ Called("connect", r)
             /\ IF r.raised # ""
                THEN Failed("connect", _handle_communication_error(attempt))
                ELSE /\ pc' = "auth"
                     /\ UNCHANGED <<next_update, stored_status, attempt, returned,
                                    cycle, decoded, lastGood, delay, prevDelay>>
    /\ loop' = Hold("poll", pc')
    /\ UNCHANGED <<entityVars, paired_zones, password, rz, unloaded, cmdVars, codecVars>>

\* a cycle that asks for the paired zones again after a failed cycle
PollAuth_FetchAfterFailure ==
    /\ pc = "auth"
    /\ loop = Hold("poll", pc)
    /\ \E io \in IoOutcomes(client), resp \in AuthResponses :
         \E r \in {auth(client, password, io, resp)} :
             /\ Called("auth", r)
             /\ IF r.raised # ""
                THEN Failed("auth", _handle_communication_error(attempt))
                ELSE /\ pc' = IF DOMAIN paired_zones = {} \/ attempt > 0
                                THEN "paired" ELSE "status"
                     /\ UNCHANGED <<next_update, stored_status, attempt, returned,
                                    cycle, decoded, lastGood, delay, prevDelay>>
    /\ loop' = Hold("poll", pc')
    /\ UNCHANGED <<entityVars, paired_zones, password, rz, unloaded, cmdVars, codecVars>>

\* a cycle whose AuthError reaches the except Exception clause of
\* _async_update_data instead of being wrapped as a CommunicationError
PollAuth_AuthErrorUnexpected ==
    /\ pc = "auth"
    /\ loop = Hold("poll", pc)
    /\ \E io \in IoOutcomes(client), resp \in AuthResponses :
         \E r \in {auth(client, password, io, resp)} :
             /\ Called("auth", r)
             /\ IF r.raised = "AuthError"
                THEN Failed("auth", _handle_unexpected_error(attempt))
                ELSE IF r.raised # ""
                THEN Failed("auth", _handle_communication_error(attempt))
                ELSE /\ pc' = IF DOMAIN paired_zones = {} THEN "paired" ELSE "status"
                     /\ UNCHANGED <<next_update, stored_status, attempt, returned,
                                    cycle, decoded, lastGood, delay, prevDelay>>
    /\ loop' = Hold("poll", pc')
    /\ UNCHANGED <<entityVars, paired_zones, password, rz, unloaded, cmdVars, codecVars>>

\* _async_connect_and_auth: client.auth(password)
PollAuth ==
    /\ pc = "auth"
    /\ loop = Hold("poll", pc)
    /\ \E io \in IoOutcomes(client), resp \in AuthResponses :
         \E r \in {auth(client, password, io, resp)} :
             /\ Called("auth", r)
             /\ IF r.raised # ""
                THEN Failed("auth", _handle_communication_error(attempt))
                ELSE /\ pc' = IF DOMAIN paired_zones = {} THEN "paired" ELSE "status"
                     /\ UNCHANGED <<next_update, stored_status, attempt, returned,
                                    cycle, decoded, lastGood, delay, prevDelay>>
    /\ loop' = Hold("poll", pc')
    /\ UNCHANGED <<entityVars, paired_zones, password, rz, unloaded, cmdVars, codecVars>>

\* _async_get_paired_zones
PollPaired ==
    /\ pc = "paired"
    /\ loop = Hold("poll", pc)
    /\ \E io \in IoOutcomes(client), resp \in PairedResponses :
         \E r \in {get_paired_sensors(client, io, resp)} :
             /\ Called("get_paired_sensors", r)
             /\ paired_zones' = IF r.raised # "" THEN EmptyDict ELSE r.value[1]
    /\ pc' = "status"
    /\ loop' = Hold("poll", pc')
    /\ UNCHANGED <<entityVars, next_update, stored_status, attempt, password,
                   returned, cycle, decoded, lastGood, delay, prevDelay, rz,
                   unloaded, cmdVars, codecVars>>

\* _async_get_status, _process_status_data and the bookkeeping of a
\* successful cycle; fault is an exception other than CommunicationError
\* escaping the try block
PollStatus ==
    /\ pc = "status"
    /\ loop = Hold("poll", pc)
    /\ \E io \in IoOutcomes(client), resp \in StatusResponses, fault \in BOOLEAN :
         \E r \in {status(client, io, resp)} :
             /\ Called("status", r)
             /\ IF r.raised # ""
                THEN Failed("status", _handle_communication_error(attempt))
                ELSE IF fault
                THEN Failed("process", _handle_unexpected_error(attempt))
                ELSE LET processed_data == _process_status_data(r.value[1], paired_zones)
                         reset == ResetCounters(attempt, next_update)
                     IN  /\ stored_status' = Some(processed_data)
                         /\ attempt' = reset.attempt
                         /\ next_update' = reset.next_update
                         /\ returned' = [kind |-> "data", data |-> Some(processed_data)]
                         /\ cycle' = [end |-> "fresh", step |-> ""]
                         /\ decoded' = r.value
                         /\ lastGood' = Some(processed_data)
                         /\ delay' = 0
                         /\ prevDelay' = 0
                         /\ pc' = "cleanup"
    /\ loop' = Hold("poll", pc')
    /\ UNCHANGED <<entityVars, paired_zones, password, rz, unloaded, cmdVars, codecVars>>

\* the finally block of _async_update_data, after which the cycle's result
\* reaches the caller and the entity is told
PollCleanup ==
    /\ pc = "cleanup"
    /\ loop = Hold("poll", pc)
    /\ \E shut \in ShutdownOutcomes(client) :
         Called("close", _async_cleanup_connection(client, shut))
    /\ Notify(stored_status)
    /\ pc' = "idle"
    /\ loop' = Hold("poll", pc')
    /\ UNCHANGED <<paired_zones, next_update, stored_status, attempt, password,
                   returned, cycle, decoded, lastGood, delay, prevDelay, rz,
                   unloaded, cmdVars, codecVars>>

\* what every step of async_refresh_zones leaves alone
RefreshFrame ==
    UNCHANGED <<entityVars, pc, next_update, stored_status, attempt, password,
                returned, cycle, decoded, lastGood, delay, prevDelay, unloaded,
                cmdVars, codecVars>>

\* the refresh_zones service calls coordinator.async_refresh_zones(); once
\* the entry is unloaded the service finds no coordinator and returns
RefreshStart ==
    /\ rz = "idle"
    /\ loop = "free"
    /\ ~unloaded
    /\ rz' = "connect"
    /\ loop' = Hold("refresh", rz')
    /\ UNCHANGED <<clientVars, paired_zones>>
    /\ RefreshFrame

\* async_refresh_zones: _async_connect_and_auth, client.connect()
RefreshConnect ==
    /\ rz = "connect"
    /\ loop = Hold("refresh", rz)
    /\ \E shut \in ShutdownOutcomes(client), conn \in ConnectOutcomes :
         LET r == connect(client, shut, conn)
         IN  /\ Called("connect", r)
             /\ rz' = IF r.raised # "" THEN "cleanup" ELSE "auth"
    /\ loop' = Hold("refresh", rz')
    /\ UNCHANGED paired_zones
    /\ RefreshFrame

\* async_refresh_zones: _async_connect_and_auth, client.auth(password)
RefreshAuth ==
    /\ rz = "auth"
    /\ loop = Hold("refresh", rz)
    /\ \E io \in IoOutcomes(client), resp \in AuthResponses :
         LET r == auth(client, password, io, resp)
         IN  /\ Called("auth", r)
             /\ rz' = IF r.raised # "" THEN "cleanup" ELSE "paired"
    /\ loop' = Hold("refresh", rz')
    /\ UNCHANGED paired_zones
    /\ RefreshFrame

\* async_refresh_zones: _async_get_paired_zones
RefreshPaired ==
    /\ rz = "paired"
    /\ loop = Hold("refresh", rz)
    /\ \E io \in IoOutcomes(client), resp \in PairedResponses :
         LET r == get_paired_sensors(client, io, resp)
         IN  /\ Called("get_paired_sensors", r)
             /\ paired_zones' = IF r.raised # "" THEN EmptyDict ELSE r.value[1]
    /\ rz' = "cleanup"
    /\ loop' = Hold("refresh", rz')
    /\ RefreshFrame

\* async_refresh_zones without its finally block: the connection stays as
\* the query left it
RefreshCleanup_KeepOpen ==
    /\ rz = "cleanup"
    /\ loop = Hold("refresh", rz)
    /\ rz' = "idle"
    /\ loop' = Hold("refresh", rz')
    /\ UNCHANGED <<clientVars, paired_zones>>
    /\ RefreshFrame

\* async_refresh_zones: the finally block
RefreshCleanup ==
    /\ rz = "cleanup"
    /\ loop = Hold("refresh", rz)
    /\ \E shut \in ShutdownOutcomes(client) :
         Called("close", _async_cleanup_connection(client, shut))
    /\ rz' = "idle"
    /\ loop' = Hold("refresh", rz')
    /\ UNCHANGED paired_zones
    /\ RefreshFrame

\* async_unload_entry: when the platforms unloaded, the entry's data is
\* dropped and coordinator.client.close() is called (the Client object is
\* always truthy); when they did not, nothing is closed
Unload ==
    /\ loop = "free"
    /\ ~unloaded
    /\ \E unload_ok \in BOOLEAN :
         IF unload_ok
         THEN /\ \E shut \in ShutdownOutcomes(client) :
                   Called("close", close(client, shut))
              /\ unloaded' = TRUE
         ELSE UNCHANGED <<clientVars, unloaded>>
    /\ UNCHANGED <<coordVars, entityVars, loop, rz, cmdVars, codecVars>>

\* the polling coordinator as time passes
Next ==
    \/ Advance
    \/ Tick
    \/ PollConnect
    \/ PollAuth
    \/ PollPaired
    \/ PollStatus
    \/ PollCleanup

Spec == Init /\ [][Next]_vars

\* a step of a poll cycle that has started: every call of the cycle returns
\* (the socket has a timeout) and the coroutine runs on
PollStep ==
    \/ PollConnect
    \/ PollAuth
    \/ PollPaired
    \/ PollStatus
    \/ PollCleanup

\* the coordinator under a scheduler that keeps sending ticks (a tick that
\* is not throttled starts a cycle), a clock that keeps running and cycles
\* that run to their end
LiveSpec ==
    /\ Init
    /\ [][Next]_vars
    /\ WF_pc(Tick)
    /\ WF_next_update(Advance)
    /\ WF_pc(PollStep)

---------------------------------------------------------------------------
(* alarm_control_panel.py: AmtAlarmPanel._execute_command and its callers *)

\* bool(result) of what a command function returned
Truthy(value) == value # None /\ value[1] # ""

\* disarm_func, arm_away_func, arm_home_func and trigger_func
CommandFuncs == {"disarm", "arm_away", "arm_home", "trigger"}

command_func(name, c, io, resp) ==
    CASE name = "disarm" -> disarm_system(c, 0, io, resp)
      [] name = "arm_away" -> arm_system(c, 0, io, resp)
      [] name = "arm_home" -> arm_system(c, 1, io, resp)
      [] OTHER -> panic(c, 1, io, resp)

\* which except clause of _execute_command takes an exception
CommandExit(raised) ==
    IF raised = "CommunicationError" THEN "CommunicationError" ELSE "unexpected"

\* what every step of _execute_command leaves alone
CommandFrame ==
    UNCHANGED <<clientVars, coordVars, entityVars, rz, unloaded, codecVars>>

\* client = ISecClient(host, port): a new client, holding no socket
CommandStart ==
    /\ cmd_pc = "idle"
    /\ loop = "free"
    /\ ~unloaded
    /\ cmd_client' = None
    /\ cmd_exit' = "running"
    /\ cmd_result' = None
    /\ cmd_pc' = "connect"
    /\ loop' = Hold("command", cmd_pc')
    /\ CommandFrame

\* client.connect()
CommandConnect ==
    /\ cmd_pc = "connect"
    /\ loop = Hold("command", cmd_pc)
    /\ \E shut \in ShutdownOutcomes(cmd_client), conn \in ConnectOutcomes :
         LET r == connect(cmd_client, shut, conn)
         IN  /\ cmd_client' = r.client
             /\ IF r.raised # ""
                THEN cmd_exit' = CommandExit(r.raised) /\ cmd_pc' = "cleanup"
                ELSE cmd_pc' = "auth" /\ UNCHANGED cmd_exit
    /\ loop' = Hold("command", cmd_pc')
    /\ UNCHANGED cmd_result
    /\ CommandFrame

\* client.auth(self._password)
CommandAuth ==
    /\ cmd_pc = "auth"
    /\ loop = Hold("command", cmd_pc)
    /\ \E io \in IoOutcomes(cmd_client), resp \in AuthResponses :
         LET r == auth(cmd_client, password, io, resp)
         IN  /\ cmd_client' = r.client
             /\ IF r.raised # ""
                THEN cmd_exit' = CommandExit(r.raised) /\ cmd_pc' = "cleanup"
                ELSE cmd_pc' = "command" /\ UNCHANGED cmd_exit
    /\ loop' = Hold("command", cmd_pc')
    /\ UNCHANGED cmd_result
    /\ CommandFrame

\* result = command_func(client) and the test of the result; a confirmed
\* command awaits coordinator.async_request_refresh()
CommandRun ==
    /\ cmd_pc = "command"
    /\ loop = Hold("command", cmd_pc)
    /\ \E name \in CommandFuncs, io \in IoOutcomes(cmd_client),
          resp \in CommandResponses :
         LET r == command_func(name, cmd_client, io, resp)
         IN  /\ cmd_client' = r.client
             /\ cmd_result' = r.value
             /\ IF r.raised # ""
                THEN cmd_exit' = CommandExit(r.raised) /\ cmd_pc' = "cleanup"
                ELSE IF Truthy(r.value)
                THEN cmd_pc' = "refresh" /\ UNCHANGED cmd_exit
                ELSE cmd_exit' = "soft" /\ cmd_pc' = "cleanup"
    /\ loop' = Hold("command", cmd_pc')
    /\ CommandFrame

\* async_request_refresh() has returned: return True
CommandRefreshed ==
    /\ cmd_pc = "refresh"
    /\ loop = "free"
    /\ cmd_exit' = "confirmed"
    /\ cmd_pc' = "cleanup"
    /\ loop' = Hold("command", cmd_pc')
    /\ UNCHANGED <<cmd_client, cmd_result>>
    /\ CommandFrame

\* the finally block: client.close()
CommandCleanup ==
    /\ cmd_pc = "cleanup"
    /\ loop = Hold("command", cmd_pc)
    /\ \E shut \in ShutdownOutcomes(cmd_client) :
         cmd_client' = close(cmd_client, shut).client
    /\ cmd_pc' = "idle"
    /\ loop' = Hold("command", cmd_pc')
    /\ UNCHANGED <<cmd_exit, cmd_result>>
    /\ CommandFrame

\* async_alarm_disarm, async_alarm_arm_away, async_alarm_arm_home and
\* async_alarm_trigger: what the action reports for an exit of
\* _execute_command (True returned, False returned or HomeAssistantError)
async_alarm_action(exit) ==
    IF exit = "confirmed" THEN "success" ELSE "HomeAssistantError"

---------------------------------------------------------------------------
(* What runs on the event loop and uses the coordinator's client: poll     *)
(* ticks, the refresh_zones service and the unloading of the entry         *)

LoopNext ==
    \/ Tick
    \/ PollConnect
    \/ PollAuth
    \/ PollPaired
    \/ PollStatus
    \/ PollCleanup
    \/ RefreshStart
    \/ RefreshConnect
    \/ RefreshAuth
    \/ RefreshPaired
    \/ RefreshCleanup
    \/ Unload

LoopSpec == Init /\ [][LoopNext]_vars

\* user commands and the poll cycles they ask for
CommandNext ==
    \/ Tick
    \/ PollConnect
    \/ PollAuth
    \/ PollPaired
    \/ PollStatus
    \/ PollCleanup
    \/ CommandStart
    \/ CommandConnect
    \/ CommandAuth
    \/ CommandRun
    \/ CommandRefreshed
    \/ CommandCleanup

CommandSpec == Init /\ [][CommandNext]_vars

---------------------------------------------------------------------------
(* The client alone, driven by a caller that may call any method at any    *)
(* time with any argument                                                  *)

ClientConnect ==
    /\ \E shut \in ShutdownOutcomes(client), conn \in ConnectOutcomes :
         Called("connect", connect(client, shut, conn))
    /\ UNCHANGED <<coordVars, entityVars, schedVars, cmdVars, codecVars>>

ClientClose ==
    /\ \E shut \in ShutdownOutcomes(client) :
         Called("close", close(client, shut))
    /\ UNCHANGED <<coordVars, entityVars, schedVars, cmdVars, codecVars>>

ClientAuth ==
    /\ \E pw \in Passwords, io \in IoOutcomes(client), resp \in AuthResponses :
         Called("auth", auth(client, pw, io, resp))
    /\ UNCHANGED <<coordVars, entityVars, schedVars, cmdVars, codecVars>>

ClientStatus ==
    /\ \E io \in IoOutcomes(client), resp \in StatusResponses :
         Called("status", status(client, io, resp))
    /\ UNCHANGED <<coordVars, entityVars, schedVars, cmdVars, codecVars>>

ClientArm ==
    /\ \E partition \in Partitions, io \in IoOutcomes(client), resp \in CommandResponses :
         Called("arm_system", arm_system(client, partition, io, resp))
    /\ UNCHANGED <<coordVars, entityVars, schedVars, cmdVars, codecVars>>

ClientDisarm ==
    /\ \E partition \in Partitions, io \in IoOutcomes(client), resp \in CommandResponses :
         Called("disarm_system", disarm_system(client, partition, io, resp))
    /\ UNCHANGED <<coordVars, entityVars, schedVars, cmdVars, codecVars>>

ClientPanic ==
    /\ \E panic_type \in {1}, io \in IoOutcomes(client), resp \in CommandResponses :
         Called("panic", panic(client, panic_type, io, resp))
    /\ UNCHANGED <<coordVars, entityVars, schedVars, cmdVars, codecVars>>

ClientPaired ==
    /\ \E io \in IoOutcomes(client), resp \in PairedResponses :
         Called("get_paired_sensors", get_paired_sensors(client, io, resp))
    /\ UNCHANGED <<coordVars, entityVars, schedVars, cmdVars, codecVars>>

ClientNext ==
    \/ ClientConnect
    \/ ClientClose
    \/ ClientAuth
    \/ ClientStatus
    \/ ClientArm
    \/ ClientDisarm
    \/ ClientPanic
    \/ ClientPaired

ClientSpec == Init /\ [][ClientNext]_vars

---------------------------------------------------------------------------
(* The codec and the decoders applied to what a panel may send: each       *)
(* action applies one function of isec2/client.py to one input             *)

\* a value of one byte
Byte == 0..255

\* a complete status response
StatusFrame(n, b20, z0, b71, b134) ==
    Response(FullLen, cmd_status, StatusPayload(n, b20, z0, b71, b134))

\* a status response with every decoded field away from its default
FullStatus == StatusFrame(FullLen, 46, 1, 2, 4)

\* status responses: one response cut at every length, responses whose
\* declared length is shorter than what was received, and payloads of
\* three lengths with every value of byte 20 and several zone tables
CodecStatusInputs ==
    {Slice(FullStatus, 0, n) : n \in 0..Len(FullStatus)}
    \cup {Response(d, cmd_status, StatusPayload(FullLen, 46, 1, 2, 4)) : d \in {0, 21, 65}}
    \cup {StatusFrame(n, b, z[1], z[2], z[3]) :
             n \in {21, 72, FullLen}, b \in Byte,
             z \in {<<0, 0, 0>>, <<1, 0, 1>>, <<254, 2, 4>>}}

\* build_status(data)
DecodeStatus ==
    /\ codec_fn = "none"
    /\ \E data \in CodecStatusInputs :
         /\ codec_fn' = "build_status"
         /\ codec_arg' = data
         /\ codec_out' = build_status(data)
    /\ UNCHANGED <<clientVars, coordVars, entityVars, schedVars, cmdVars>>

\* split_into_octets(merge_octets([hi, lo])) and back
LengthRoundTrip ==
    /\ codec_fn = "none"
    /\ \E hi \in Byte, lo \in Byte :
         LET x == merge_octets(<<hi, lo>>)
         IN  /\ codec_fn' = "octets"
             /\ codec_arg' = <<hi, lo>>
             /\ codec_out' = [merged |-> x,
                              split |-> split_into_octets(x),
                              again |-> merge_octets(split_into_octets(x))]
    /\ UNCHANGED <<clientVars, coordVars, entityVars, schedVars, cmdVars>>

\* the frame arm_system(partition) or disarm_system(partition) sends
EncodePartition ==
    /\ codec_fn = "none"
    /\ \E partition \in Byte, name \in {"arm_system", "disarm_system"} :
         /\ codec_fn' = name
         /\ codec_arg' = <<partition>>
         /\ codec_out' =
               IF name = "arm_system"
               THEN arm_system(Socket("connected"), partition, "ok", <<>>).wire
               ELSE disarm_system(Socket("connected"), partition, "ok", <<>>).wire
    /\ UNCHANGED <<clientVars, coordVars, entityVars, schedVars, cmdVars>>

\* responses to a command: every length from 0 to 10 bytes, with each of
\* three values at bytes 7 and 8
CodecCommandResponses ==
    {[i \in 1..n |-> IF i - 1 = 7 THEN b7 ELSE IF i - 1 = 8 THEN b8 ELSE 0] :
        n \in 0..10, b7 \in {0, 145, 254}, b8 \in {0, 145, 254}}

\* what arm_system, disarm_system and panic make of a response
DecodeCommand ==
    /\ codec_fn = "none"
    /\ \E resp \in CodecCommandResponses, name \in {"arm", "disarm", "panic"} :
         LET r == CASE name = "arm" -> arm_system(Socket("connected"), 0, "ok", resp)
                    [] name = "disarm" -> disarm_system(Socket("connected"), 0, "ok", resp)
                    [] OTHER -> panic(Socket("connected"), 1, "ok", resp)
         IN  /\ codec_fn' = name
             /\ codec_arg' = resp
             /\ codec_out' = [raised |-> r.raised, value |-> r.value]
    /\ UNCHANGED <<clientVars, coordVars, entityVars, schedVars, cmdVars>>

\* responses to the paired-sensors query: the header followed by 0 to 9
\* bytes, the first of five values and the others all of one of three
CodecPairedResponses ==
    {Response(2, cmd_paired_sensors,
              [i \in 1..k |-> IF i = 1 THEN first ELSE others]) :
        k \in 0..9, first \in {0, 1, 3, 253, 255}, others \in {0, 128, 255}}
    \cup {<<>>, <<143, 255>>}

\* what get_paired_sensors makes of a response
DecodePaired ==
    /\ codec_fn = "none"
    /\ \E resp \in CodecPairedResponses :
         LET r == get_paired_sensors(Socket("connected"), "ok", resp)
         IN  /\ codec_fn' = "get_paired_sensors"
             /\ codec_arg' = resp
             /\ codec_out' = [raised |-> r.raised, value |-> r.value]
    /\ UNCHANGED <<clientVars, coordVars, entityVars, schedVars, cmdVars>>

CodecNext ==
    \/ DecodeStatus
    \/ LengthRoundTrip
    \/ EncodePartition
    \/ DecodeCommand
    \/ DecodePaired

CodecSpec == Init /\ [][CodecNext]_vars

---------------------------------------------------------------------------
(* Claims about the polling coordinator (specification Spec) *)

\* C1: a poll cycle that fails after an earlier poll succeeded returns
\* exactly the snapshot stored by the last successful poll, and the stored
\* snapshot is unchanged by the failed cycle.
C1_StaleServing ==
    (cycle.end = "failed" /\ lastGood # None) =>
        /\ returned = [kind |-> "data", data |-> lastGood]
        /\ stored_status = lastGood

C1_Witness ==
    /\ pc = "idle"
    /\ cycle = [end |-> "failed", step |-> "status"]
    /\ lastGood # None
    /\ returned.data = lastGood

\* C2: a poll cycle raises UpdateFailed if and only if the cycle failed and
\* no snapshot has ever been stored; once a snapshot exists no cycle raises.
C2_RaisesIffNoSnapshot ==
    /\ (returned.kind = "UpdateFailed") <=> (cycle.end = "failed" /\ lastGood = None)
    /\ (stored_status = None) <=> (lastGood = None)

C2_Witness ==
    /\ pc = "idle"
    /\ returned.kind = "UpdateFailed"
    /\ cycle.end = "failed"
    /\ stored_status = None

\* C3 as stated: on every poll tick at which the current time is before
\* next_update the coordinator performs no I/O, returns the cached snapshot
\* and leaves the failure counter and the deadline unchanged.
C3_ThrottleAsStated ==
    [][(Tick /\ now < next_update) =>
         /\ pc' = "idle"
         /\ returned' = [kind |-> "data", data |-> stored_status]
         /\ stored_status # None
         /\ UNCHANGED <<clientVars, attempt, next_update, stored_status>>]_vars

\* C3, amended: on every poll tick at which the current time is before
\* next_update and a snapshot is stored, the coordinator performs no I/O,
\* returns the cached snapshot and leaves the failure counter and the
\* deadline unchanged.
C3_Throttle ==
    [][(Tick /\ now < next_update /\ stored_status # None) =>
         /\ pc' = "idle"
         /\ returned' = [kind |-> "data", data |-> stored_status]
         /\ UNCHANGED <<clientVars, attempt, next_update, stored_status>>]_vars

C3_Witness ==
    /\ pc = "idle"
    /\ cycle.end = "throttled"
    /\ now < next_update
    /\ returned = [kind |-> "data", data |-> stored_status]
    /\ attempt > 0

\* the arming state a snapshot reports
SnapshotArming(panel) ==
    IF panel.armed THEN "armed_away"
    ELSE IF panel.partiallyArmed THEN "partial_armed"
    ELSE IF panel.disarmed THEN "disarmed"
    ELSE "unknown"

\* the entity state that stands for a decoded arming state
EntityStateFor(st) ==
    CASE st = "armed_away" -> Some("armed_away")
      [] st = "partial_armed" -> Some("armed_home")
      [] OTHER -> Some("disarmed")

\* C4: after a successful poll the snapshot, and the alarm-panel entity once
\* it has been told, report the arming state that was decoded from the
\* status response (armed_away, partial_armed or disarmed).
C4_ArmingStateCarried ==
    (/\ cycle.end = "fresh"
     /\ decoded # None
     /\ decoded[1].status \in {"armed_away", "partial_armed", "disarmed"}) =>
        /\ SnapshotArming(stored_status[1].panel) = decoded[1].status
        /\ (pc = "idle" => attr_state = EntityStateFor(decoded[1].status))

\* C5 as stated: over consecutive failed poll cycles the backoff delays are
\* non-decreasing and every delay is at most 60 seconds.
C5_BackoffAsStated ==
    /\ (prevDelay > 0 => delay >= prevDelay)
    /\ delay <= 60

\* C5, amended: over consecutive failed poll cycles the delays are
\* non-decreasing and at most 60 seconds, except that the communication
\* failure on which the counter reaches max_retries sets a delay of 300
\* seconds and resets the counter to 0, and the failure after it starts
\* again at 2 seconds.
C5_Backoff ==
    /\ (prevDelay > 0 /\ prevDelay # 300 => delay >= prevDelay)
    /\ (prevDelay = 300 /\ delay > 0 => delay = 2)
    /\ (delay <= 60 \/ (delay = 300 /\ attempt = 0))

C5_Witness ==
    /\ pc = "idle"
    /\ prevDelay = 16
    /\ delay = 300
    /\ attempt = 0

\* C6: in every reachable state the failure counter satisfies
\* 0 <= attempt <= max_retries.
C6_AttemptBounded == attempt \in 0..max_retries

C6_Witness ==
    /\ attempt = max_retries
    /\ cycle = [end |-> "failed", step |-> "process"]

\* C7: whenever a poll cycle that attempted I/O ends, whether it returns
\* fresh data, returns stale data or raises UpdateFailed, the coordinator's
\* client holds no socket.
C7_ReleasedAfterPoll ==
    [][(pc = "cleanup" /\ pc' = "idle") => client' = None]_vars

C7_Witness ==
    /\ pc = "idle"
    /\ cycle = [end |-> "failed", step |-> "connect"]
    /\ lastOp = "close"
    /\ client = None

\* the steps of a poll cycle that talk to the panel
PollSteps == {"connect", "auth", "paired", "status"}

\* C15: a failure in any step of a poll cycle (connect, authenticate, fetch
\* paired zones, fetch status) counts as a poll failure: the failure counter
\* is incremented, up to the cap, and the backoff deadline is moved into
\* the future.
C15_EveryFailureCounted ==
    [][(pc \in PollSteps /\ pc' # pc /\ lastResult'.raised # "") =>
         /\ attempt' = Min(attempt + 1, max_retries)
         /\ next_update' > now]_vars

\* C16: after every successful poll cycle the failure counter is 0 and the
\* backoff deadline is not in the future, so that the next tick is not
\* throttled and attempts I/O again; the stored snapshot is the one that
\* cycle built.
C16_ResetAfterSuccess ==
    (cycle.end = "fresh") =>
        /\ attempt = 0
        /\ next_update <= now
        /\ ~Throttled(now, next_update, stored_status)
        /\ stored_status = lastGood
        /\ returned = [kind |-> "data", data |-> lastGood]

C16_Witness ==
    /\ pc = "idle"
    /\ cycle.end = "fresh"
    /\ attempt = 0
    /\ next_update = now
    /\ stored_status # None
    /\ DOMAIN stored_status[1].zones # {}

\* C31: in a poll cycle that attempts I/O the client operations come in the
\* order connect, auth, paired-sensors query (only when the paired-zone set
\* is empty at that moment), status, close; status is not issued in a cycle
\* whose connect or auth failed, and close is the last operation.
C31_OperationOrder ==
    [][(pc' # pc) =>
         /\ pc = "idle" => pc' = "connect"
         /\ pc = "connect" =>
               /\ lastOp' = "connect"
               /\ pc' = IF lastResult'.raised # "" THEN "cleanup" ELSE "auth"
         /\ pc = "auth" =>
               /\ lastOp' = "auth"
               /\ pc' = IF lastResult'.raised # "" THEN "cleanup"
                        ELSE IF DOMAIN paired_zones = {} THEN "paired"
                        ELSE "status"
         /\ pc = "paired" =>
               /\ lastOp' = "get_paired_sensors"
               /\ pc' = "status"
         /\ pc = "status" =>
               /\ lastOp' = "status"
               /\ pc' = "cleanup"
         /\ pc = "cleanup" =>
               /\ lastOp' = "close"
               /\ pc' = "idle"
         /\ pc' = "status" => cycle'.end = "running"]_vars

\* a cycle that went through all five operations
C31_Witness ==
    /\ pc = "idle"
    /\ lastOp = "close"
    /\ cycle.end = "fresh"
    /\ DOMAIN paired_zones # {}
    /\ attempt = 0

\* C32: the poll loop issues the paired-sensors query in a cycle exactly
\* when connect and auth succeeded and the paired-zone set is empty; once
\* the set is not empty no poll cycle issues the query and the set stays
\* as it is.
C32_FetchedWhileEmpty ==
    [][/\ (pc = "auth" /\ pc' = "paired") => DOMAIN paired_zones = {}
       /\ (pc = "auth" /\ pc' = "status") => DOMAIN paired_zones # {}
       /\ (DOMAIN paired_zones # {}) =>
             /\ lastOp' = "get_paired_sensors" => lastOp = "get_paired_sensors"
             /\ paired_zones' = paired_zones]_vars

\* C32 as stated: at most one poll cycle issues the paired-sensors query.
\* A cycle that built a snapshot either issued the query itself or found
\* the set not empty, which only an earlier query can have made it: no
\* cycle after it issues the query.
C32_FetchedOnceAsStated ==
    [][(stored_status # None /\ pc = "auth") => pc' # "paired"]_vars

\* a later cycle that goes from auth to status with the cached set
C32_Witness ==
    /\ pc = "status"
    /\ lastOp = "auth"
    /\ stored_status # None
    /\ DOMAIN paired_zones # {}
    /\ DOMAIN stored_status[1].zones = DOMAIN paired_zones

\* C33: no backoff lasts forever: if from some point on no poll cycle ends
\* in a failure, then again and again a poll cycle attempts I/O and
\* succeeds, leaving its snapshot stored and the failure counter at 0.
C33_Recovery ==
    <>[](cycle.end # "failed") =>
        []<>(/\ cycle.end = "fresh"
             /\ lastOp = "status"
             /\ stored_status = lastGood
             /\ attempt = 0)

\* a successful cycle after a cycle whose connect failed
C33_Witness ==
    /\ cycle.end = "fresh"
    /\ lastOp = "status"
    /\ leaked > 0
    /\ stored_status = lastGood
    /\ attempt = 0

C38_AuthErrorAsCommunicationError ==
    [][/\ (pc = "auth" /\ pc' # pc /\ lastResult'.raised = "AuthError") =>
            /\ attempt' = IF attempt + 1 >= max_retries THEN 0 ELSE attempt + 1
            /\ next_update' = now + (IF attempt + 1 >= max_retries
                                     THEN 300
                                     ELSE 2 ^ (attempt + 1))
            /\ cycle' = [end |-> "failed", step |-> "auth"]
            /\ stored_status' = stored_status
            /\ returned' = IF stored_status # None
                           THEN [kind |-> "data", data |-> stored_status]
                           ELSE [kind |-> "UpdateFailed", data |-> None]
       /\ (pc = "auth" /\ pc' # pc /\ wire' # <<>>) => wire' = AuthFrame(password)
       /\ password' = password]_vars

\* the panel has refused the password in a cycle that follows four failed
\* cycles, and the stored snapshot was returned
C38_Witness ==
    /\ pc = "cleanup"
    /\ cycle = [end |-> "failed", step |-> "auth"]
    /\ lastResult.raised = "AuthError"
    /\ lastResult.cause = "Invalid password"
    /\ prevDelay = 16
    /\ stored_status # None
    /\ returned = [kind |-> "data", data |-> stored_status]

\* C39: the schedule of communication failures: a failed connect, auth or
\* status takes the counter from 0 to 1 with a delay of 2 seconds, from 1 to
\* 2 with 4, from 2 to 3 with 8 and from 3 to 4 with 16; the failure that
\* finds the counter at 4 sets a delay of 300 seconds and puts the counter
\* back to 0, from where the schedule starts again.
C39_FailureSchedule ==
    [][(/\ pc \in {"connect", "auth", "status"}
        /\ pc' # pc
        /\ lastResult'.raised # ""
        /\ attempt <= 4) =>
         LET schedule == <<2, 4, 8, 16, 300>>
         IN  /\ delay' = schedule[attempt + 1]
             /\ next_update' = now + schedule[attempt + 1]
             /\ attempt' = (attempt + 1) % 5
             /\ prevDelay' = delay]_vars

\* the failure after the 300-second one: the schedule has started again
C39_Witness ==
    /\ cycle.end = "failed"
    /\ cycle.step \in {"connect", "auth", "status"}
    /\ prevDelay = 300
    /\ delay = 2
    /\ attempt = 1

---------------------------------------------------------------------------
(* Claims about what shares the event loop (specifications LoopSpec and    *)
(* CommandSpec)                                                            *)

\* the sequences that are driving the coordinator's client
InFlight ==
    {q \in {"poll", "refresh"} :
        \/ q = "poll" /\ pc # "idle"
        \/ q = "refresh" /\ rz # "idle"}

\* C17: at most one logical sequence drives the coordinator's client at a
\* time: a poll cycle and a refresh_zones call are never both between their
\* first and their last step, and the event loop takes up no new tick or
\* service call while one of them is, so that neither two poll cycles nor a
\* poll cycle and a refresh_zones call interleave on the client.
C17_OneSequenceAtATime ==
    /\ Cardinality(InFlight) <= 1
    /\ (loop = "free" => InFlight = {})
    /\ (loop # "free" => InFlight = {loop})

C17_Witness ==
    /\ rz = "paired"
    /\ loop = "refresh"
    /\ pc = "idle"
    /\ cycle.end = "fresh"
    /\ client = Socket("connected")

\* the steps of refresh_zones that talk to the panel
RefreshSteps == {"connect", "auth", "paired"}

\* C18: the event loop never executes a blocking socket operation itself:
\* while a connect, send or receive of a poll cycle or of refresh_zones is
\* to be done, its coroutine is suspended and the loop is free for other
\* ticks and callbacks.
C18_SocketOpsOffloaded ==
    (pc \in PollSteps \/ rz \in RefreshSteps) => loop = "free"

\* how _execute_command can end
CommandExits == {"confirmed", "soft", "CommunicationError", "unexpected"}

\* C19: a user command runs on a client of its own, created holding no
\* socket, and never on the coordinator's client; when _execute_command
\* exits (confirmed command, soft failure, CommunicationError or unexpected
\* error) that client is Disconnected.
C19_CommandClientReleased ==
    [][/\ (cmd_pc' # cmd_pc => UNCHANGED clientVars)
       /\ (cmd_pc = "idle" /\ cmd_pc' # "idle" => cmd_client' = None)
       /\ (cmd_pc # "idle" /\ cmd_pc' = "idle" =>
              cmd_client' = None /\ cmd_exit' \in CommandExits)]_vars

C19_Witness ==
    /\ cmd_pc = "idle"
    /\ cmd_exit = "unexpected"
    /\ cmd_client = None
    /\ cycle.end = "fresh"

\* the values with which the client says the panel did not confirm
SoftFailureValues == {"not_armed", "not_disarmed", "not_triggered"}

\* C30: when the client operation of a user command returned not_armed,
\* not_disarmed or not_triggered, the alarm-panel action raises
\* HomeAssistantError and does not report success.
C30_UnconfirmedReported ==
    (/\ cmd_pc = "idle"
     /\ cmd_exit \in CommandExits
     /\ cmd_result # None
     /\ cmd_result[1] \in SoftFailureValues) =>
        async_alarm_action(cmd_exit) = "HomeAssistantError"

\* C20: after async_unload_entry has torn the coordinator down, its client
\* is Disconnected, no poll cycle or refresh_zones call is in flight and no
\* socket that one of them opened was left without being closed.
C20_NothingOpenAfterUnload ==
    unloaded => (client = None /\ InFlight = {} /\ leaked = 0)

\* C35: refresh_zones is independent of the poll state: each of its steps
\* leaves the stored snapshot, the failure counter and the backoff deadline
\* as they were, its connect, auth and paired-sensors query are made
\* whatever the deadline is, and when it ends (whether the fetch succeeded
\* or failed) the coordinator's client is Disconnected.
C35_RefreshIndependent ==
    [][(rz' # rz) =>
         /\ stored_status' = stored_status
         /\ attempt' = attempt
         /\ next_update' = next_update
         /\ rz = "connect" => lastOp' = "connect"
         /\ rz = "auth" => lastOp' = "auth"
         /\ rz = "paired" => lastOp' = "get_paired_sensors"
         /\ rz' = "idle" => client' = None]_vars

\* a refresh has made its query while a backoff deadline of the poll loop
\* was pending
C35_Witness ==
    /\ rz = "cleanup"
    /\ lastOp = "get_paired_sensors"
    /\ next_update > 0
    /\ attempt > 0
    /\ stored_status # None

\* C37: a paired-zone fetch that fails, in a poll cycle or in
\* refresh_zones (its connect, its auth or its query raises), never shrinks
\* the paired-zone set the coordinator already holds: a non-empty set stays
\* as it was.
C37_FailedFetchKeepsZones ==
    [][(/\ DOMAIN paired_zones # {}
        /\ \/ rz \in {"connect", "auth", "paired"} /\ rz' # rz
           \/ pc \in {"connect", "auth", "paired"} /\ pc' # pc
        /\ lastResult'.raised # "")
       => paired_zones' = paired_zones]_vars

---------------------------------------------------------------------------
(* Claims about the client alone (specification ClientSpec) *)

IoOps == {"auth", "status", "arm_system", "disarm_system", "panic",
          "get_paired_sensors"}

\* C8: every socket connect() creates has its close invoked by the time the
\* next close() on that client returns; no socket stays open once the
\* client is Disconnected.
C8_EverySocketClosed == (client = None) => (leaked = 0)

\* C9: after a connect() that raises CommunicationError the client is
\* Disconnected; it holds a socket only when the TCP connect succeeded.
C9_ConnectedOnlyOnSuccess ==
    /\ (lastOp = "connect" /\ lastResult.raised = "CommunicationError") => client = None
    /\ (lastOp = "connect" /\ lastResult.raised = "") => client = Socket("connected")

\* C10: when a send or receive inside auth, status, arm, disarm, panic or
\* get_paired_sensors fails with a timeout or an OS error, the client is
\* left Disconnected.
C10_InvalidatedOnIoFailure ==
    (/\ lastOp \in IoOps
     /\ lastResult.raised = "CommunicationError"
     /\ lastResult.cause \in {"timeout", "oserror"}) => client = None

\* C11: close() never raises and always leaves the client Disconnected,
\* whether the client was Disconnected, Connected or held a broken socket;
\* a close() on a client that is already Disconnected changes nothing of
\* the client (no socket dropped, nothing sent).
C11_CloseIdempotent ==
    [][(lastOp' = "close") =>
         /\ client' = None
         /\ lastResult'.raised = ""
         /\ (client = None => leaked' = leaked /\ wire' = <<>>)]_vars

C11_Witness ==
    /\ lastOp = "close"
    /\ lastResult.cause = "non_existent"
    /\ client = None
    /\ leaked = 1

\* a password of exactly six digit characters
SixDigits(pw) == Len(pw) = 6 /\ \A i \in 1..Len(pw) : pw[i] \in Digits

\* C12: on a Connected client, auth(password) raises CommunicationError and
\* sends nothing for every password that is not exactly six digit
\* characters (the empty string, a seven-character string, a string with a
\* letter).
C12_PasswordValidated ==
    [][(client = Socket("connected") /\ lastOp' = "auth") =>
         \A pw \in {p \in Passwords : ~SixDigits(p)},
            io \in IoOutcomes(client), resp \in AuthResponses :
              Called("auth", auth(client, pw, io, resp)) =>
                /\ lastResult'.raised = "CommunicationError"
                /\ wire' = <<>>]_vars

\* the outcome the protocol table gives for a response
AuthOutcomeFor(resp) ==
    IF Len(resp) < 9 THEN "CommunicationError"
    ELSE CASE At(resp, 8) = 0 -> ""
           [] At(resp, 8) \in 1..4 -> "AuthError"
           [] OTHER -> "CommunicationError"

AuthMessageFor(resp) ==
    IF Len(resp) < 9 THEN "short"
    ELSE CASE At(resp, 8) = 0 -> ""
           [] At(resp, 8) = 1 -> "Invalid password"
           [] At(resp, 8) = 2 -> "Incorrect software version"
           [] At(resp, 8) = 3 -> "Alarm panel will call back"
           [] At(resp, 8) = 4 -> "Waiting for user permission"
           [] OTHER -> "unknown"

\* C13: once a response was received, the outcome of auth is a function of
\* the response alone: shorter than 9 bytes raises CommunicationError;
\* byte 8 equal to 0 returns success; 1, 2, 3, 4 raise AuthError with their
\* four messages; any other value raises CommunicationError.  auth returns
\* success for no byte other than 0.
C13_AuthOutcome ==
    [][(/\ client # None
        /\ lastOp' = "auth"
        /\ lastResult'.cause \notin {"password", "timeout", "oserror"}) =>
         \A pw \in {p \in Passwords : ~PasswordRejected(p)}, resp \in AuthResponses :
              Called("auth", auth(client, pw, "ok", resp)) =>
                /\ lastResult'.raised = AuthOutcomeFor(resp)
                /\ lastResult'.cause = AuthMessageFor(resp)
                /\ (lastResult'.value = Some(TRUE)) <=>
                       (Len(resp) >= 9 /\ At(resp, 8) = 0)]_vars

C13_Witness ==
    /\ lastOp = "auth"
    /\ lastResult.raised = "AuthError"
    /\ lastResult.cause = "Alarm panel will call back"
    /\ client = Socket("connected")

\* C14: auth, status, arm_system, disarm_system, panic and
\* get_paired_sensors called on a Disconnected client raise
\* CommunicationError, send nothing and leave the client Disconnected.
C14_RequiresConnection ==
    [][(client = None /\ lastOp' \in IoOps) =>
         /\ lastResult'.raised = "CommunicationError"
         /\ lastResult'.cause = "not_connected"
         /\ wire' = <<>>
         /\ client' = None]_vars

C14_Witness ==
    /\ lastOp = "panic"
    /\ lastResult = [lastOp |-> "panic", raised |-> "CommunicationError",
                     cause |-> "not_connected",
                     value |-> None]
    /\ client = None
    /\ wire = <<>>

\* C25: for every frame a client operation sends, the XOR of all its
\* bytes, the final checksum byte included, starting from 0, is 0xFF.
C25_FrameXor ==
    wire # <<>> => XorAll(wire, 0) = 255

\* C25 as stated: the XOR of all bytes of a frame sent is 0x00.
C25_FrameXorAsStated ==
    wire # <<>> => XorAll(wire, 0) = 0

C25_Witness ==
    /\ lastOp = "arm_system"
    /\ Len(wire) = 11
    /\ At(wire, 8) = 3
    /\ At(wire, 10) = calculate_checksum(Slice(wire, 0, 10))
    /\ XorAll(wire, 0) = 255

\* C34: in every frame a client operation sends, the big-endian length
\* field in bytes 4-5 equals the number of command and payload bytes between
\* the length field and the checksum (the frame less its 4 id bytes, its 2
\* length bytes and its checksum byte).
C34_LengthField ==
    wire # <<>> => At(wire, 4) * 256 + At(wire, 5) = Len(wire) - 7

---------------------------------------------------------------------------
(* Claims about the codec and the decoders (specification CodecSpec) *)

\* the payload of a response: what follows the 8-byte header, up to the
\* declared length
PayloadOf(data) ==
    IF Len(data) < 8 THEN <<>>
    ELSE Slice(data, 8, Min(Len(data), 8 + data[5] * 256 + data[6]))

\* C21: build_status returns a status for a byte array of any length, and
\* every field whose byte is not in the payload has the value it has for an
\* input shorter than the header: model and version Unknown, arming state
\* unknown, flags false, battery unknown, no zones.
C21_DecodeTotal ==
    codec_fn = "build_status" =>
        LET p == PayloadOf(codec_arg)
            r == codec_out
            d == StatusDefaults
        IN  /\ DOMAIN r = DOMAIN d
            /\ Len(codec_arg) < 8 => r = d
            /\ Len(p) <= 0 => r.model = d.model
            /\ Len(p) <= 3 => r.version = d.version
            /\ Len(p) <= 20 => /\ r.status = d.status
                               /\ r.zonesFiring = d.zonesFiring
                               /\ r.zonesClosed = d.zonesClosed
                               /\ r.siren = d.siren
            /\ Len(p) <= 134 => r.batteryStatus = d.batteryStatus
            /\ Len(p) <= 71 => r.tamper = d.tamper
            /\ Len(p) <= ZONE_PAYLOAD_OFFSET => r.zones = d.zones
            /\ \A n \in 1..MAX_ZONES :
                   Len(p) <= ZONE_PAYLOAD_OFFSET + ((n - 1) \div 8) =>
                       ZoneKey(n) \notin DOMAIN r.zones
            /\ r.model \in {"AMT-8000", "Unknown"}
            /\ r.status \in {"disarmed", "partial_armed", "armed_away", "unknown"}
            /\ r.batteryStatus \in {"dead", "low", "middle", "full", "unknown"}
            /\ {r.zonesFiring, r.zonesClosed, r.siren, r.tamper} \subseteq BOOLEAN

\* a response cut between the status byte and the zone table
C21_Witness ==
    /\ codec_fn = "build_status"
    /\ Len(PayloadOf(codec_arg)) = 40
    /\ Len(codec_arg) < 8 + merge_octets(Slice(codec_arg, 4, 6))
    /\ codec_out.status = "partial_armed"
    /\ codec_out.batteryStatus = "unknown"
    /\ codec_out.zones = EmptyDict

\* C22: a payload whose byte 20 is 0b01100000 decodes to the arming state
\* armed_away (both arming bits are set, code 3) with zonesFiring,
\* zonesClosed and siren all false (bits 0x08, 0x04 and 0x02 are clear).
C22_Example ==
    (/\ codec_fn = "build_status"
     /\ Len(PayloadOf(codec_arg)) > 20
     /\ At(PayloadOf(codec_arg), 20) = 96) =>
        /\ codec_out.status = "armed_away"
        /\ ~codec_out.zonesFiring
        /\ ~codec_out.zonesClosed
        /\ ~codec_out.siren

\* C22 as stated: byte 20 = 0b01100000 decodes to partial_armed with
\* zonesFiring and zonesClosed true and siren false.
C22_ExampleAsStated ==
    (/\ codec_fn = "build_status"
     /\ Len(PayloadOf(codec_arg)) > 20
     /\ At(PayloadOf(codec_arg), 20) = 96) =>
        /\ codec_out.status = "partial_armed"
        /\ codec_out.zonesFiring
        /\ codec_out.zonesClosed
        /\ ~codec_out.siren

C22_Witness ==
    /\ codec_fn = "build_status"
    /\ Len(PayloadOf(codec_arg)) = FullLen
    /\ At(PayloadOf(codec_arg), 20) = 96
    /\ codec_out.status = "armed_away"
    /\ ~codec_out.zonesFiring

\* C23: for every payload longer than 20 bytes and every value b of its
\* byte 20, the arming state is disarmed, partial_armed, armed_away or
\* unknown as ((b >> 5) & 3) is 0, 1, 3 or 2, zonesFiring is bit 0x08,
\* zonesClosed bit 0x04 and siren bit 0x02 of b, whatever the other bytes.
C23_StatusByte ==
    (codec_fn = "build_status" /\ Len(PayloadOf(codec_arg)) > 20) =>
        LET b == At(PayloadOf(codec_arg), 20)
            code == (b \div 32) % 4
        IN  /\ codec_out.status = (CASE code = 0 -> "disarmed"
                                     [] code = 1 -> "partial_armed"
                                     [] code = 3 -> "armed_away"
                                     [] code = 2 -> "unknown")
            /\ codec_out.zonesFiring <=> (b \div 8) % 2 = 1
            /\ codec_out.zonesClosed <=> (b \div 4) % 2 = 1
            /\ codec_out.siren <=> (b \div 2) % 2 = 1

\* code 2 with the firing and siren bits, in a payload with other bytes set
C23_Witness ==
    /\ codec_fn = "build_status"
    /\ Len(PayloadOf(codec_arg)) = 72
    /\ At(PayloadOf(codec_arg), 20) = 74
    /\ At(PayloadOf(codec_arg), ZONE_PAYLOAD_OFFSET) = 254
    /\ codec_out.status = "unknown"
    /\ codec_out.zonesFiring /\ ~codec_out.zonesClosed /\ codec_out.siren

\* C24: a status payload whose 8-byte zone table is all zero decodes to 64
\* zones none of which is open; with only bit 0 of the first byte of the
\* table set, zone 1 is open and every other zone is not.
C24_ZoneBitmap ==
    (codec_fn = "build_status" /\ Len(PayloadOf(codec_arg)) >= ZONE_PAYLOAD_OFFSET + 8) =>
        LET p == PayloadOf(codec_arg)
            first == At(p, ZONE_PAYLOAD_OFFSET)
            restZero == \A i \in 1..7 : At(p, ZONE_PAYLOAD_OFFSET + i) = 0
            zones == codec_out.zones
        IN  /\ (first = 0 /\ restZero) =>
                  /\ DOMAIN zones = {ZoneKey(n) : n \in 1..MAX_ZONES}
                  /\ \A n \in 1..MAX_ZONES : zones[ZoneKey(n)] # "open"
            /\ (first = 1 /\ restZero) =>
                  /\ zones[ZoneKey(1)] = "open"
                  /\ \A n \in 2..MAX_ZONES : zones[ZoneKey(n)] # "open"

\* C26: split_into_octets(merge_octets([hi, lo])) = [hi, lo] for all bytes
\* hi and lo, and merge_octets(split_into_octets(x)) = x for every x in
\* 0..65535.
C26_LengthRoundTrip ==
    codec_fn = "octets" =>
        /\ codec_out.merged \in 0..65535
        /\ codec_out.split = codec_arg
        /\ codec_out.again = codec_out.merged

C26_Witness ==
    /\ codec_fn = "octets"
    /\ codec_arg = <<255, 254>>
    /\ codec_out.merged = 65534
    /\ codec_out.split = <<255, 254>>

\* C27: the frame of arm_system and disarm_system carries at byte 8 0xFF
\* for partition 0 and the partition itself for any other, and at byte 9
\* 0x01 for arm and 0x00 for disarm.
C27_PartitionSentinel ==
    codec_fn \in {"arm_system", "disarm_system"} =>
        /\ Len(codec_out) = 11
        /\ At(codec_out, 8) = (IF codec_arg[1] = 0 THEN 255 ELSE codec_arg[1])
        /\ At(codec_out, 9) = (IF codec_fn = "arm_system" THEN 1 ELSE 0)

C27_Witness ==
    /\ codec_fn = "arm_system"
    /\ codec_arg = <<0>>
    /\ At(codec_out, 8) = 255
    /\ At(codec_out, 9) = 1

\* C28: for every response, arm_system and disarm_system return their
\* success value iff the response is longer than 8 bytes and its byte 8 is
\* 0x91, panic returns its success value iff the response is longer than 7
\* bytes and its byte 7 is 0xFE; otherwise they return their failure value;
\* none of them raises.
C28_SoftFailure ==
    codec_fn \in {"arm", "disarm", "panic"} =>
        LET resp == codec_arg
            marked == IF codec_fn = "panic"
                      THEN Len(resp) > 7 /\ At(resp, 7) = 254
                      ELSE Len(resp) > 8 /\ At(resp, 8) = 145
            success == CASE codec_fn = "arm" -> "armed"
                         [] codec_fn = "disarm" -> "disarmed"
                         [] codec_fn = "panic" -> "triggered"
            failure == CASE codec_fn = "arm" -> "not_armed"
                         [] codec_fn = "disarm" -> "not_disarmed"
                         [] codec_fn = "panic" -> "not_triggered"
        IN  /\ codec_out.raised = ""
            /\ codec_out.value = Some(IF marked THEN success ELSE failure)

\* an 8-byte response carrying the panic marker as its last byte: too
\* short for arm, long enough for panic
C28_Witness ==
    /\ codec_fn = "panic"
    /\ Len(codec_arg) = 8
    /\ At(codec_arg, 7) = 254
    /\ codec_out = [raised |-> "", value |-> Some("triggered")]

\* C29: get_paired_sensors does not raise on any response; its result is
\* empty when response byte 8 is present and is 0xFD, and otherwise holds
\* zone n (1..64) iff response byte 8 + (n-1) div 8 is present and has bit
\* (n-1) mod 8 set.
C29_PairedMask ==
    codec_fn = "get_paired_sensors" =>
        LET resp == codec_arg
            zones == codec_out.value[1]
        IN  /\ codec_out.raised = ""
            /\ codec_out.value # None
            /\ DOMAIN zones \subseteq {ZoneKey(n) : n \in 1..MAX_ZONES}
            /\ \A k \in DOMAIN zones : zones[k] = TRUE
            /\ IF Len(resp) > 8 /\ At(resp, 8) = 253
               THEN zones = EmptyDict
               ELSE \A n \in 1..MAX_ZONES :
                      ZoneKey(n) \in DOMAIN zones <=>
                          /\ Len(resp) > 8 + ((n - 1) \div 8)
                          /\ (At(resp, 8 + ((n - 1) \div 8)) \div (2 ^ ((n - 1) % 8))) % 2 = 1

\* a response cut after three mask bytes
C29_Witness ==
    /\ codec_fn = "get_paired_sensors"
    /\ Len(codec_arg) = 11
    /\ At(codec_arg, 8) = 3
    /\ At(codec_arg, 9) = 128
    /\ DOMAIN codec_out.value[1] = {ZoneKey(1), ZoneKey(2), ZoneKey(16), ZoneKey(24)}

=============================================================================
